---- MODULE Spec2Model ----
(***************************************************************************)
(* Model of the boids simulation: App::update (src/src/app.rs) and the     *)
(* systems it runs each tick (src/src/systems.rs).                         *)
(*                                                                         *)
(* Numbers.  An f32 is modelled as a fixed-point number with SCALE units   *)
(* per 1.0, or as the value NaN.  Every arithmetic operator rounds its     *)
(* result to the nearest unit (ties away from zero, so that rounding is    *)
(* symmetric under negation, as IEEE rounding is), propagates NaN, and     *)
(* follows the IEEE rules the code relies on: 0 * (1/0) is NaN, every      *)
(* comparison with NaN is false, NaN cast to u32 is 0.                     *)
(***************************************************************************)
EXTENDS Integers, Sequences, FiniteSets

\* ------------------------------------------------------------------ bounds
MaxAgents == 8
MaxTicks == 1

\* ------------------------------------------------------- program constants
THREAD_COUNT == 8
CELL_SIZE == 100
P1 == 73856093
P2 == 19349663
SPEED == 50

\* --------------------------------------------------------------- f32 model
SCALE == 10 * 10
NaN == -(2^30)
F32_MAX == 2^28
Half16 == 2^16

IsNaN(a) == a = NaN
Abs(a) == IF a < 0 THEN -a ELSE a
Max(a, b) == IF a > b THEN a ELSE b

\* a / b for integers, b > 0, rounded to nearest, ties away from zero
RDiv(a, b) == IF a >= 0 THEN (2 * a + b) \div (2 * b)
                        ELSE -((2 * (-a) + b) \div (2 * b))

FAdd(a, b) == IF IsNaN(a) \/ IsNaN(b) THEN NaN ELSE a + b
FSub(a, b) == IF IsNaN(a) \/ IsNaN(b) THEN NaN ELSE a - b
FMul(a, b) == IF IsNaN(a) \/ IsNaN(b) THEN NaN ELSE RDiv(a * b, SCALE)
\* a / b; 0/0 is NaN (x/0 for x # 0 is infinite and does not occur: every
\* division of the code by a possibly-zero value is guarded or divides 1.0)
FDiv(a, b) == IF IsNaN(a) \/ IsNaN(b) \/ b = 0 THEN NaN
              ELSE IF b > 0 THEN RDiv(a * SCALE, b) ELSE -RDiv(a * SCALE, -b)
\* IEEE comparisons: false when an operand is NaN
FLt(a, b) == ~IsNaN(a) /\ ~IsNaN(b) /\ a < b
FGt(a, b) == ~IsNaN(a) /\ ~IsNaN(b) /\ a > b
FEq(a, b) == ~IsNaN(a) /\ ~IsNaN(b) /\ a = b
FNeg(a) == IF IsNaN(a) THEN NaN ELSE -a

RECURSIVE SqrtIter(_, _)
SqrtIter(m, x) == LET y == (x + m \div x) \div 2
                  IN IF y >= x THEN x ELSE SqrtIter(m, y)
ISqrt(m) == IF m = 0 THEN 0 ELSE SqrtIter(m, m)

\* vecmath::vec2_len: sqrt(x*x + y*y); large operands are rescaled so that the
\* squares stay inside the integers of the checker, as f32 keeps 24 bits
vec2_len(v) ==
    IF IsNaN(v[1]) \/ IsNaN(v[2]) THEN NaN
    ELSE LET m == Max(Abs(v[1]), Abs(v[2]))
         IN IF m < 2^15 THEN ISqrt(v[1] * v[1] + v[2] * v[2])
            ELSE 32 * ISqrt((v[1] \div 32) * (v[1] \div 32) + (v[2] \div 32) * (v[2] \div 32))

vec2_add(a, b) == <<FAdd(a[1], b[1]), FAdd(a[2], b[2])>>
vec2_sub(a, b) == <<FSub(a[1], b[1]), FSub(a[2], b[2])>>
vec2_scale(a, t) == <<FMul(a[1], t), FMul(a[2], t)>>

\* vecmath::vec2_normalized: vec2_scale(v, 1.0 / vec2_len(v)).  For the zero
\* vector 1.0 / 0.0 is infinite and 0.0 * infinity is NaN in both components.
\* Otherwise the product is rounded once (fixed point cannot hold 1/l for a
\* large l, which f32 can).
vec2_normalized(v) ==
    LET l == vec2_len(v)
    IN IF IsNaN(l) \/ l = 0 THEN <<NaN, NaN>>
       ELSE <<RDiv(v[1] * SCALE, l), RDiv(v[2] * SCALE, l)>>

vec2_normalized_safe(v) ==
    LET l == vec2_len(v)
    IN IF FEq(l, 0) THEN <<0, 0>>
       ELSE <<FDiv(v[1], l), FDiv(v[2], l)>>

\* cgmath::num_traits::clamp
clamp(x, lo, hi) == IF FLt(x, lo) THEN lo ELSE IF FGt(x, hi) THEN hi ELSE x

\* ------------------------------------------------------------- u32 and hash
RECURSIVE Xor(_, _)
Xor(a, b) == IF a = 0 THEN b
             ELSE IF b = 0 THEN a
             ELSE 2 * Xor(a \div 2, b \div 2) + ((a + b) % 2)

\* f32 as u32: saturating, NaN and negatives give 0
AsU32(c) == IF IsNaN(c) \/ c < 0 THEN 0 ELSE c

\* wrapping u32 product c * p as <<high 16 bits, low 16 bits>>, for c < 2^15
MulU32(c, p) ==
    LET lo == c * (p % Half16)
    IN <<(c * (p \div Half16) + lo \div Half16) % Half16, lo % Half16>>

\* floor(x / CELL_SIZE)
Cell(x) == IF IsNaN(x) THEN NaN ELSE x \div (CELL_SIZE * SCALE)

hash(position, count) ==
    LET a == MulU32(AsU32(Cell(position[1])), P1)
        b == MulU32(AsU32(Cell(position[2])), P2)
        hi == Xor(a[1], b[1])
        lo == Xor(a[2], b[2])
    IN ((hi % count) * (Half16 % count) + (lo % count)) % count

\* ------------------------------------------------------------ configuration
\* main.rs:19
INITIAL_DISPLAY_SIZE == [width |-> 1280, height |-> 720]
\* sizes a Resized event may carry
SizeSet == {INITIAL_DISPLAY_SIZE, [width |-> 640, height |-> 360]}
\* frame times measured by the event loop, in units of 1/SCALE s
DeltaSet == {0, 2}
\* values of the alignment weight: 1.0 and 2.0
AlignmentWeights == {SCALE, 2 * SCALE}
COHESION_WEIGHT == SCALE
SEPARATION_WEIGHT == SCALE

NONE == -1
Pt(x, y) == <<x * SCALE, y * SCALE>>
Zero2 == <<0, 0>>

VARIABLES
    AGENT_COUNT,       \* main.rs AGENT_COUNT, the configured number of agents
    ALIGNMENT_WEIGHT,  \* crate::ALIGNMENT_WEIGHT
    positions,         \* App.components.positions
    directions,        \* App.components.directions
    transforms,        \* App.components.transforms
    display_size,      \* App.display_size
    perspective,       \* App.perspective
    pc,                \* where App::update stands
    delta_time,        \* dt of the running update
    cells,             \* boid_system: cells
    cell_forwards,     \* boid_system: cell_forwards
    cell_cohesions,    \* boid_system: cell_cohesions
    separations,       \* boid_system: separations
    done,              \* buckets the running `for b in &cells` loop has visited
    cur,               \* the bucket the loop is at, or NONE
    idx,               \* position of the inner loop in the bucket's Vec
    spawned,           \* the running thread::scope has spawned its tasks
    running,           \* worker tasks spawned and not yet finished
    forwards_in,       \* `forwards` as boid_system received it
    ticks              \* completed calls of App::update

config == <<AGENT_COUNT, ALIGNMENT_WEIGHT>>
components == <<positions, directions, transforms>>
window == <<display_size, perspective>>
locals == <<cells, cell_forwards, cell_cohesions, separations, forwards_in>>
loop == <<done, cur, idx>>
vars == <<config, components, window, pc, delta_time, locals, loop, spawned, running, ticks>>

Agents == 0 .. (AGENT_COUNT - 1)
CHUNK_SIZE == AGENT_COUNT \div THREAD_COUNT

\* ------------------------------------------------------------- boid_system
\* no value: the locals of boid_system outside a call
Dropped == <<>>
Filled(count, v) == [i \in 0 .. (count - 1) |-> v]

\* variant: the bucket of h is always created anew
insert_overwrite(map, h, i) ==
    [k \in DOMAIN map \cup {h} |-> IF k = h THEN <<i>> ELSE map[k]]
\* cells.get_mut(&h) / bucket.push(i) / cells.insert(h, v)
insert(map, h, i) ==
    IF h \in DOMAIN map
    THEN [map EXCEPT ![h] = Append(@, i)]
    ELSE [k \in DOMAIN map \cup {h} |-> IF k = h THEN <<i>> ELSE map[k]]

\* for (i, position) in positions.iter().enumerate(): the map after agents
\* 0 .. i-1 are placed
RECURSIVE build_cells(_, _, _)
build_cells(pos, count, i) ==
    IF i = 0 THEN Dropped
    ELSE insert(build_cells(pos, count, i - 1), hash(pos[i - 1], count), i - 1)

RECURSIVE sum_members(_, _, _, _)
sum_members(members, values, k, acc) ==
    IF k > Len(members) THEN acc
    ELSE sum_members(members, values, k + 1, vec2_add(acc, values[members[k]]))

bucket_alignment(members, forwards, cell_forward) ==
    vec2_normalized(sum_members(members, forwards, 1, cell_forward))

\* 1.0 / len as f32, then vec2_scale
bucket_cohesion(members, pos, cell_cohesion) ==
    vec2_scale(sum_members(members, pos, 1, cell_cohesion), FDiv(SCALE, Len(members) * SCALE))

\* the inner loop of bucket_separation: <<nearest_index, min_distance>>
RECURSIVE nearest(_, _, _, _, _)
nearest(boid_id, members, pos, k, best) ==
    IF k > Len(members) THEN best
    ELSE LET neighbor_id == members[k]
             distance == vec2_len(vec2_sub(pos[boid_id], pos[neighbor_id]))
         IN IF boid_id = neighbor_id THEN nearest(boid_id, members, pos, k + 1, best)
            ELSE IF FLt(distance, best[2])
                 THEN nearest(boid_id, members, pos, k + 1, <<neighbor_id, distance>>)
                 ELSE nearest(boid_id, members, pos, k + 1, best)

separation_of(boid_id, members, pos) ==
    LET n0 == nearest(boid_id, members, pos, 1, <<0, F32_MAX>>)
        nearest_index == n0[1]
        min_distance == n0[2]
        d == vec2_normalized_safe(vec2_sub(pos[boid_id], pos[nearest_index]))
    IN IF min_distance # 0
       THEN vec2_scale(d, clamp(FDiv(SCALE, min_distance), 1, 1000 * SCALE))
       ELSE d

bucket_separation(members, pos, seps) ==
    [a \in DOMAIN seps |->
        IF \E k \in 1 .. Len(members) : members[k] = a
        THEN separation_of(a, members, pos) ELSE seps[a]]

\* variant: the bucket's alignment is computed again from `forwards` at each
\* pass of the inner loop
boid_blend_recomputed(agent_id, h, members, forwards, pos, cforwards, ccohesions, seps, weight) ==
    LET coh == vec2_scale(vec2_normalized_safe(vec2_sub(ccohesions[h], pos[agent_id])),
                          COHESION_WEIGHT)
        sep == vec2_scale(seps[agent_id], SEPARATION_WEIGHT)
        ali == vec2_scale(bucket_alignment(members, forwards, Zero2), weight)
        res == vec2_add(vec2_add(vec2_add(forwards[agent_id], coh), sep), ali)
    IN [direction |-> vec2_normalized(res), separation |-> sep, cell_forward |-> ali]
\* the body of the inner loop of the second `for b in &cells`, for agent_id of
\* bucket h: the new forwards[agent_id], separations[agent_id], cell_forwards[h]
boid_blend(agent_id, h, members, forwards, pos, cforwards, ccohesions, seps, weight) ==
    LET coh == vec2_scale(vec2_normalized_safe(vec2_sub(ccohesions[h], pos[agent_id])),
                          COHESION_WEIGHT)
        sep == vec2_scale(seps[agent_id], SEPARATION_WEIGHT)
        ali == vec2_scale(cforwards[h], weight)
        res == vec2_add(vec2_add(vec2_add(forwards[agent_id], coh), sep), ali)
    IN [direction |-> vec2_normalized(res), separation |-> sep, cell_forward |-> ali]

\* ------------------------------------------------- chunked systems, per agent
forward_job(position, forward, real_speed) ==
    vec2_add(position, vec2_scale(forward, real_speed))

wrap_coordinate(c, dimension) ==
    IF FLt(c, 0) THEN dimension * SCALE
    ELSE IF FGt(c, dimension * SCALE) THEN 0
    ELSE c
wrap_screen_job(position, display) ==
    <<wrap_coordinate(position[1], display.width),
      wrap_coordinate(position[2], display.height)>>

caluclate_transform_job(position, forward) ==
    LET cos == forward[1]
        sin == FNeg(forward[2])
    IN << <<cos, FNeg(sin), 0, 0>>,
          <<sin, cos, 0, 0>>,
          <<0, 0, SCALE, 0>>,
          <<position[1], position[2], 0, SCALE>> >>

default_transform ==
    << <<SCALE, 0, 0, 0>>, <<0, SCALE, 0, 0>>, <<0, 0, SCALE, 0>>, <<0, 0, 0, SCALE>> >>

\* graphics::perspective: the orthographic projection, determined by its size
perspective_of(display) == <<display.width, display.height>>

\* slice.chunks(size): the index sets of the chunks, in order (size > 0)
chunks(len, size) ==
    [c \in 0 .. (((len + size) - 1) \div size) - 1 |->
        {i \in 0 .. (len - 1) : c * size <= i /\ i < (c + 1) * size}]

\* ------------------------------------------------------------ initial state
\* App::new: AGENT_COUNT agents with random positions inside the initial
\* display and random unit directions.  Agents 0 and 1 range over the choices
\* below; the rest of the flock is laid out along the edges and in one cell.
Flock ==
    << [p |-> <<127950, 300 * SCALE>>, d |-> <<SCALE, 0>>],
       [p |-> <<600 * SCALE, 50>>,     d |-> <<0, -SCALE>>],
       [p |-> <<50, 400 * SCALE>>,     d |-> <<-SCALE, 0>>],
       [p |-> <<700 * SCALE, 71950>>,  d |-> <<0, SCALE>>] >>
PositionChoices(i) ==
    IF i = 0 THEN {Pt(5, 5)}
    ELSE IF i = 1 THEN {Pt(5, 5), Pt(15, 5), Pt(250, 5)}
    ELSE IF i - 1 <= Len(Flock) THEN {Flock[i - 1].p}
    ELSE {Pt(300 + 10 * i, 300)}
DirectionChoices(i) ==
    IF i = 0 THEN {<<SCALE, 0>>}
    ELSE IF i = 1 THEN {<<SCALE, 0>>, <<-SCALE, 0>>, <<0, SCALE>>}
    ELSE IF i - 1 <= Len(Flock) THEN {Flock[i - 1].d}
    ELSE {<<SCALE, 0>>}

Init ==
    /\ AGENT_COUNT \in 1 .. MaxAgents
    /\ ALIGNMENT_WEIGHT \in AlignmentWeights
    /\ \E p1 \in PositionChoices(1), d1 \in DirectionChoices(1) :
         /\ positions = [i \in Agents |->
              IF i = 1 THEN p1 ELSE CHOOSE p \in PositionChoices(i) : TRUE]
         /\ directions = [i \in Agents |->
              IF i = 1 THEN d1 ELSE CHOOSE d \in DirectionChoices(i) : TRUE]
    /\ transforms = [i \in Agents |-> default_transform]
    /\ display_size = INITIAL_DISPLAY_SIZE
    /\ perspective = perspective_of(INITIAL_DISPLAY_SIZE)
    /\ pc = "Idle"
    /\ delta_time = 0
    /\ cells = Dropped /\ cell_forwards = Dropped /\ cell_cohesions = Dropped
    /\ separations = Dropped /\ forwards_in = Dropped
    /\ done = {} /\ cur = NONE /\ idx = 0
    /\ spawned = FALSE
    /\ running = {}
    /\ ticks = 0

\* ------------------------------------------------------------------ actions
\* Event::MainEventsCleared: app.update(delta) is entered; boid_system
\* allocates its locals
Update(dt) ==
    /\ pc = "Idle"
    /\ ticks < MaxTicks
    /\ pc' = "BuildGrid"
    /\ delta_time' = dt
    /\ cells' = Dropped
    /\ cell_forwards' = Filled(AGENT_COUNT, Zero2)
    /\ cell_cohesions' = Filled(AGENT_COUNT, Zero2)
    /\ separations' = Filled(AGENT_COUNT, Zero2)
    /\ forwards_in' = directions
    /\ UNCHANGED <<config, components, window, loop, spawned, running, ticks>>

\* variant: the resize also wraps the positions into the new display
on_window_resize_clamping(size) ==
    /\ pc = "Idle"
    /\ display_size' = size
    /\ perspective' = perspective_of(size)
    /\ positions' = [i \in Agents |-> wrap_screen_job(positions[i], size)]
    /\ UNCHANGED <<config, directions, transforms, pc, delta_time, locals, loop,
                   spawned, running, ticks>>
\* WindowEvent::Resized(size): App::on_window_resize
on_window_resize(size) ==
    /\ pc = "Idle"
    /\ display_size' = size
    /\ perspective' = perspective_of(size)
    /\ UNCHANGED <<config, components, pc, delta_time, locals, loop, spawned,
                   running, ticks>>

\* boid_system, lines 178-191: every agent is put into the bucket of its cell
BuildGrid ==
    /\ pc = "BuildGrid"
    /\ cells' = build_cells(positions, AGENT_COUNT, AGENT_COUNT)
    /\ pc' = "Reduce"
    /\ UNCHANGED <<config, components, window, delta_time, cell_forwards,
                   cell_cohesions, separations, forwards_in, loop, spawned,
                   running, ticks>>

\* variant: a scope that does not wait for its threads
scope_returns_early(tasks) == TRUE
\* thread::scope(..).expect(..) returns once every spawned thread has finished
scope_joined(tasks) == tasks = {}

\* first `for b in &cells` (the map's iteration order is arbitrary): the scope
\* of bucket b spawns its three threads
ReduceSpawn(b) ==
    /\ pc = "Reduce" /\ cur = NONE /\ ~spawned
    /\ b \in DOMAIN cells \ done
    /\ cur' = b
    /\ spawned' = TRUE
    /\ running' = {[sys |-> "alignment", chunk |-> b],
                   [sys |-> "cohesion", chunk |-> b],
                   [sys |-> "separation", chunk |-> b]}
    /\ UNCHANGED <<config, components, window, pc, delta_time, locals, done, idx, ticks>>

AlignmentTask ==
    /\ \E t \in running :
         /\ t.sys = "alignment"
         /\ cell_forwards' = [cell_forwards EXCEPT
                ![t.chunk] = bucket_alignment(cells[t.chunk], directions, @)]
         /\ running' = running \ {t}
    /\ UNCHANGED <<config, components, window, pc, delta_time, cells, cell_cohesions,
                   separations, forwards_in, loop, spawned, ticks>>

CohesionTask ==
    /\ \E t \in running :
         /\ t.sys = "cohesion"
         /\ cell_cohesions' = [cell_cohesions EXCEPT
                ![t.chunk] = bucket_cohesion(cells[t.chunk], positions, @)]
         /\ running' = running \ {t}
    /\ UNCHANGED <<config, components, window, pc, delta_time, cells, cell_forwards,
                   separations, forwards_in, loop, spawned, ticks>>

SeparationTask ==
    /\ \E t \in running :
         /\ t.sys = "separation"
         /\ separations' = bucket_separation(cells[t.chunk], positions, separations)
         /\ running' = running \ {t}
    /\ UNCHANGED <<config, components, window, pc, delta_time, cells, cell_forwards,
                   cell_cohesions, forwards_in, loop, spawned, ticks>>

\* the scope of the current bucket returns; after the last bucket the first
\* loop is over
ReduceJoin ==
    /\ pc = "Reduce" /\ spawned /\ scope_joined(running)
    /\ spawned' = FALSE
    /\ cur' = NONE
    /\ IF done \cup {cur} = DOMAIN cells
       THEN pc' = "Blend" /\ done' = {}
       ELSE pc' = pc /\ done' = done \cup {cur}
    /\ UNCHANGED <<config, components, window, delta_time, locals, idx, running, ticks>>

\* second `for b in &cells`: one pass of the inner loop, for the next agent of
\* the current bucket or the first agent of a bucket not yet visited
BlendAgent(b) ==
    /\ pc = "Blend"
    /\ \/ cur = NONE /\ b \in DOMAIN cells \ done
       \/ cur = b
    /\ LET k == IF cur = NONE THEN 1 ELSE idx
           agent_id == cells[b][k]
           r == boid_blend(agent_id, b, cells[b], directions, positions,
                           cell_forwards, cell_cohesions, separations, ALIGNMENT_WEIGHT)
       IN /\ directions' = [directions EXCEPT ![agent_id] = r.direction]
          /\ separations' = [separations EXCEPT ![agent_id] = r.separation]
          /\ cell_forwards' = [cell_forwards EXCEPT ![b] = r.cell_forward]
          /\ IF k = Len(cells[b])
             THEN cur' = NONE /\ idx' = 0 /\ done' = done \cup {b}
             ELSE cur' = b /\ idx' = k + 1 /\ done' = done
    /\ UNCHANGED <<config, positions, transforms, window, pc, delta_time, cells,
                   cell_cohesions, forwards_in, spawned, running, ticks>>

\* boid_system returns: its locals are dropped
BoidReturn ==
    /\ pc = "Blend" /\ cur = NONE /\ done = DOMAIN cells
    /\ pc' = "Integrate"
    /\ done' = {}
    /\ cells' = Dropped /\ cell_forwards' = Dropped /\ cell_cohesions' = Dropped
    /\ separations' = Dropped /\ forwards_in' = Dropped
    /\ UNCHANGED <<config, components, window, delta_time, cur, idx, spawned, running, ticks>>

\* the tasks a chunked system spawns: one per chunk of chunks(CHUNK_SIZE)
chunk_tasks(sys) ==
    {[sys |-> sys, chunk |-> c] : c \in DOMAIN chunks(AGENT_COUNT, CHUNK_SIZE)}
chunk_of(t) == chunks(AGENT_COUNT, CHUNK_SIZE)[t.chunk]

\* a chunked system is entered: chunks_mut(CHUNK_SIZE) panics when CHUNK_SIZE
\* is 0, otherwise the scope spawns one thread per chunk
SpawnChunks(at, sys) ==
    /\ pc = at /\ ~spawned
    /\ IF CHUNK_SIZE = 0
       THEN pc' = "Panic" /\ UNCHANGED <<spawned, running>>
       ELSE pc' = pc /\ spawned' = TRUE /\ running' = running \cup chunk_tasks(sys)
    /\ UNCHANGED <<config, components, window, delta_time, locals, loop, ticks>>

ForwardSpawn == SpawnChunks("Integrate", "forward")
WrapSpawn == SpawnChunks("ApplyBounds", "wrap")
TransformSpawn == SpawnChunks("Emit", "transform")

ForwardTask ==
    /\ \E t \in running :
         /\ t.sys = "forward"
         /\ LET real_speed == FMul(delta_time, SPEED * SCALE)
            IN positions' = [i \in Agents |->
                 IF i \in chunk_of(t)
                 THEN forward_job(positions[i], directions[i], real_speed)
                 ELSE positions[i]]
         /\ running' = running \ {t}
    /\ UNCHANGED <<config, directions, transforms, window, pc, delta_time, locals,
                   loop, spawned, ticks>>

WrapTask ==
    /\ \E t \in running :
         /\ t.sys = "wrap"
         /\ positions' = [i \in Agents |->
              IF i \in chunk_of(t)
              THEN wrap_screen_job(positions[i], display_size)
              ELSE positions[i]]
         /\ running' = running \ {t}
    /\ UNCHANGED <<config, directions, transforms, window, pc, delta_time, locals,
                   loop, spawned, ticks>>

TransformTask ==
    /\ \E t \in running :
         /\ t.sys = "transform"
         /\ transforms' = [i \in Agents |->
              IF i \in chunk_of(t)
              THEN caluclate_transform_job(positions[i], directions[i])
              ELSE transforms[i]]
         /\ running' = running \ {t}
    /\ UNCHANGED <<config, positions, directions, window, pc, delta_time, locals,
                   loop, spawned, ticks>>

\* the scope of a chunked system returns and App::update goes on
JoinChunks(at, then) ==
    /\ pc = at /\ spawned /\ scope_joined(running)
    /\ pc' = then
    /\ spawned' = FALSE
    /\ ticks' = IF then = "Idle" THEN ticks + 1 ELSE ticks
    /\ UNCHANGED <<config, components, window, delta_time, locals, loop, running>>

ForwardJoin == JoinChunks("Integrate", "ApplyBounds")
WrapJoin == JoinChunks("ApplyBounds", "Emit")
TransformJoin == JoinChunks("Emit", "Idle")

Next ==
    \/ \E dt \in DeltaSet : Update(dt)
    \/ \E size \in SizeSet : on_window_resize(size)
    \/ BuildGrid
    \/ \E b \in DOMAIN cells : ReduceSpawn(b)
    \/ AlignmentTask
    \/ CohesionTask
    \/ SeparationTask
    \/ ReduceJoin
    \/ \E b \in DOMAIN cells : BlendAgent(b)
    \/ BoidReturn
    \/ ForwardSpawn
    \/ ForwardTask
    \/ ForwardJoin
    \/ WrapSpawn
    \/ WrapTask
    \/ WrapJoin
    \/ TransformSpawn
    \/ TransformTask
    \/ TransformJoin

Spec == Init /\ [][Next]_vars

\* ------------------------------------------------------------------ helpers
Phase == IF pc \in {"Reduce", "Blend"} THEN "ComputeForces" ELSE pc
Members(h) == {cells[h][k] : k \in 1 .. Len(cells[h])}
HasNaN(v) == IsNaN(v[1]) \/ IsNaN(v[2])
\* |v| is 1.0 up to the rounding of the two components
IsUnit(v) ==
    /\ ~HasNaN(v)
    /\ (SCALE - 2) * (SCALE - 2) <= v[1] * v[1] + v[2] * v[2]
    /\ v[1] * v[1] + v[2] * v[2] <= (SCALE + 2) * (SCALE + 2)
\* the agents the second loop has already passed
Blended ==
    UNION {Members(h) : h \in done}
    \cup (IF cur = NONE THEN {} ELSE {cells[cur][k] : k \in 1 .. (idx - 1)})
BlendOver == pc = "Blend" /\ cur = NONE /\ done = DOMAIN cells

\* v scaled k times by w, as cell_forwards[h] is after k passes of the inner loop
RECURSIVE scaled_times(_, _, _)
scaled_times(v, w, k) == IF k = 0 THEN v ELSE vec2_scale(scaled_times(v, w, k - 1), w)

RankIn(members, a) == CHOOSE k \in 1 .. Len(members) : members[k] = a

\* the heading the tick gives agent a, computed from the positions and from the
\* headings boid_system received (forwards_in) alone
HeadingFromOldState(a) ==
    LET h == hash(positions[a], AGENT_COUNT)
        members == cells[h]
        k == RankIn(members, a)
        ali == scaled_times(bucket_alignment(members, forwards_in, Zero2),
                            ALIGNMENT_WEIGHT, k - 1)
        coh == bucket_cohesion(members, positions, Zero2)
        sep == separation_of(a, members, positions)
    IN boid_blend(a, h, members, forwards_in, positions,
                  [x \in {h} |-> ali], [x \in {h} |-> coh], [x \in {a} |-> sep],
                  ALIGNMENT_WEIGHT).direction

\* the state right after the grid build
GridBuilt == pc = "Reduce" /\ cur = NONE /\ done = {}
\* the phase a worker task belongs to, and the order of the phases
TaskPhase(t) ==
    CASE t.sys \in {"alignment", "cohesion", "separation"} -> "ComputeForces"
      [] t.sys = "forward" -> "Integrate"
      [] t.sys = "wrap" -> "ApplyBounds"
      [] t.sys = "transform" -> "Emit"
PhaseOrder ==
    {<<"Idle", "BuildGrid">>, <<"BuildGrid", "ComputeForces">>,
     <<"ComputeForces", "Integrate">>, <<"Integrate", "ApplyBounds">>,
     <<"ApplyBounds", "Emit">>, <<"Emit", "Idle">>}
\* position is a point of [0, width] x [0, height]
InDisplay(position, display) ==
    /\ ~HasNaN(position)
    /\ 0 <= position[1] /\ position[1] <= display.width * SCALE
    /\ 0 <= position[2] /\ position[2] <= display.height * SCALE
\* chunks(CHUNK_SIZE) exists and splits [0, AGENT_COUNT) into contiguous,
\* pairwise disjoint index sets that cover it
ChunksPartition ==
    /\ CHUNK_SIZE > 0
    /\ LET cs == chunks(AGENT_COUNT, CHUNK_SIZE)
       IN /\ UNION {cs[c] : c \in DOMAIN cs} = Agents
          /\ \A c, e \in DOMAIN cs : c # e => cs[c] \cap cs[e] = {}
          /\ \A c \in DOMAIN cs : \A i, j \in cs[c] : \A m \in i .. j : m \in cs[c]

\* ------------------------------------------------------------------- claims

\* C1: within one tick of boid_system the new heading of every agent is a
\* function of the positions and of the headings at the start of the tick only:
\* an agent the blend loop has passed holds the heading computed from the old
\* state, an agent it has not passed still holds its old heading, whatever the
\* loop has already written for other agents.
C1_PureMap ==
    pc = "Blend" =>
        \A a \in Agents :
            directions[a] = IF a \in Blended THEN HeadingFromOldState(a)
                            ELSE forwards_in[a]
\* the loop is over, and in some bucket of several members the first member's
\* heading was changed before the others were blended
C1_Witness ==
    /\ BlendOver
    /\ \E h \in DOMAIN cells :
         /\ Len(cells[h]) >= 2
         /\ directions[cells[h][1]] # forwards_in[cells[h][1]]
         /\ ~HasNaN(directions[cells[h][2]])

\* C2: after ComputeForces every heading is a unit vector or exactly the zero
\* vector, and the normalizations of the step (bucket alignment, blend) yield
\* the zero vector, never an undefined value, for a zero-length input.
C2_UnitOrZero ==
    pc = "Blend" =>
        /\ \A h \in DOMAIN cells : ~HasNaN(cell_forwards[h])
        /\ \A a \in Blended : IsUnit(directions[a]) \/ directions[a] = Zero2

\* C3: after the grid build the buckets partition the agent indices: every
\* agent appears exactly once, in the bucket keyed by the hash of its current
\* position, and no bucket of the mapping is empty.
C3_Partition ==
    GridBuilt =>
        /\ \A h \in DOMAIN cells : Len(cells[h]) >= 1 /\ Members(h) \subseteq Agents
        /\ \A a \in Agents :
             /\ hash(positions[a], AGENT_COUNT) \in DOMAIN cells
             /\ \A h \in DOMAIN cells :
                  Cardinality({k \in 1 .. Len(cells[h]) : cells[h][k] = a})
                      = IF h = hash(positions[a], AGENT_COUNT) THEN 1 ELSE 0
\* a grid of several buckets, one of them with several members
C3_Witness ==
    /\ GridBuilt
    /\ Cardinality(DOMAIN cells) >= 3
    /\ \E h \in DOMAIN cells : Len(cells[h]) >= 2

\* C4: the phases of a tick run in the order BuildGrid, ComputeForces,
\* Integrate, ApplyBounds, Emit; a phase begins only when no worker task of the
\* phase before it is running, and every running task belongs to the phase
\* the tick is in.
C4_Barrier ==
    /\ [](\A t \in running : TaskPhase(t) = Phase)
    /\ [][Phase' # Phase /\ Phase' # "Panic" =>
            running = {} /\ running' = {} /\ <<Phase, Phase'>> \in PhaseOrder]_vars
\* the last phase is under way: some of its tasks are finished, some still run
C4_Witness ==
    /\ pc = "Emit" /\ spawned
    /\ running # {} /\ running # chunk_tasks("transform")

\* C5: an agent that is the only member of its bucket gets the zero vector as
\* its separation, and the tick leaves its heading at normalize(old heading).
C5_LoneSeparation ==
    pc = "Blend" =>
        \A h \in DOMAIN cells :
            Len(cells[h]) = 1 =>
                /\ separations[cells[h][1]] = Zero2
                /\ cells[h][1] \in Blended =>
                     directions[cells[h][1]] = vec2_normalized(forwards_in[cells[h][1]])

\* C6: after ApplyBounds every agent position lies in
\* [0, width] x [0, height].
C6_InBounds ==
    pc = "Emit" => \A a \in Agents : InDisplay(positions[a], display_size)

\* C7: a resize leaves every position and heading as it was, and the tick after
\* it wraps against the size set last: when ApplyBounds is over, every
\* coordinate that is a number lies inside the current display.
C7_Resize ==
    /\ [][display_size' # display_size =>
            positions' = positions /\ directions' = directions]_vars
    /\ [](pc = "Emit" =>
            \A a \in Agents :
                /\ IsNaN(positions[a][1]) \/
                     (0 <= positions[a][1] /\ positions[a][1] <= display_size.width * SCALE)
                /\ IsNaN(positions[a][2]) \/
                     (0 <= positions[a][2] /\ positions[a][2] <= display_size.height * SCALE))
\* after a resize to a smaller display, an agent that was inside the initial
\* display and outside the new one has been wrapped to the left edge
C7_Witness ==
    /\ pc = "Emit"
    /\ display_size # INITIAL_DISPLAY_SIZE
    /\ \E a \in Agents : positions[a][1] = 0

\* C8: Integrate with deltaTime = 0 leaves every position unchanged, and never
\* modifies a heading.
C8_ZeroDelta ==
    [][pc = "Integrate" /\ delta_time = 0 =>
         positions' = positions /\ directions' = directions]_vars

\* C9: every member of a bucket receives the bucket's alignment multiplied by
\* ALIGNMENT_WEIGHT exactly once: once a member of bucket h is blended, the
\* alignment force last added (cell_forwards[h]) is alignment * weight.
C9_AlignmentOnce ==
    pc = "Blend" =>
        \A h \in DOMAIN cells :
            Members(h) \cap Blended # {} =>
                cell_forwards[h] =
                    vec2_scale(bucket_alignment(cells[h], forwards_in, Zero2), ALIGNMENT_WEIGHT)

\* C10: for every agent count N >= 1, Integrate and ApplyBounds split [0, N)
\* into contiguous, pairwise disjoint chunks that cover it and run one task per
\* chunk: once Integrate has been entered, the split exists and the tick goes
\* on.
C10_Chunked ==
    pc \in {"ApplyBounds", "Emit", "Panic"} => pc # "Panic" /\ ChunksPartition

====
